---------------------------- MODULE Spec2Model ----------------------------
(***************************************************************************)
(* Front Manager (src/scripts/main.js): the client-side state of           *)
(* FrontManagerApp, its request/response protocol with the remote store,   *)
(* and the click / dialog handlers registered in _onRender.                *)
(*                                                                         *)
(* A step of the model is one turn of the JavaScript event loop: a user    *)
(* event or the arrival of a response, run up to the next await.  The      *)
(* return of #fetchFronts and the code that awaited it are two steps, the  *)
(* second one (Resume) taken before anything else may happen, just as the  *)
(* microtask queue is drained before the next event.                       *)
(***************************************************************************)
EXTENDS Integers, Sequences, FiniteSets, TLC

VARIABLES
    frontsData,       \* #frontsData: [null, fronts]
    expandedFronts,   \* #expandedFronts
    expandedDangers,  \* #expandedDangers
    loading,          \* #loading
    error,            \* #error: NoError, or the message of the last failed fetch
    view,             \* the context last returned by _prepareContext (what the window shows)
    rendered,         \* the window has been opened (render(true) was called)
    windows,          \* windows of earlier FrontManagerApp objects, still open
    server,           \* the fronts array stored by the remote store
    tasks,            \* the async handlers suspended on a request, oldest first
    cont,             \* index in tasks of the handler whose #fetchFronts just returned, or 0
    dialogs,          \* the open Dialog windows with what their callbacks captured
    notes,            \* ui.notifications / exceptions raised by the last step
    last,             \* the user event handled by the last step, with its input
    failed,           \* some request of this behaviour has failed
    nActs             \* number of user actions that started a handler with requests

vars == <<frontsData, expandedFronts, expandedDangers, loading, error, view,
          rendered, windows, server, tasks, cont, dialogs, notes, last, failed, nActs>>

---------------------------------------------------------------------------
(* Bounds of the model *)

MaxActs == 2      \* user actions that issue requests, per behaviour
MaxTasks == 2     \* handlers suspended on a request at the same time
MaxDialogs == 1   \* dialogs open at the same time
MaxLines == 2     \* length of a cast / stakes / locations sequence
MaxWindows == 2   \* windows left open by superseded application objects

---------------------------------------------------------------------------
(* Texts are sequences of characters, so that trim() is computed. *)

Hole == <<"<hole>">>        \* an array slot never assigned (sparse array)
JsonNull == <<"null">>      \* what JSON.stringify writes for such a slot
NoError == <<>>
FetchError == <<"Verbindung zum Server fehlgeschlagen">>

RawInputs == { <<>>, <<" ">>, <<"x">>, <<" ", "x">> }

RECURSIVE TrimLeft(_)
TrimLeft(s) ==
    IF s # <<>> /\ Head(s) = " " THEN TrimLeft(Tail(s)) ELSE s

RECURSIVE TrimRight(_)
TrimRight(s) ==
    IF s # <<>> /\ s[Len(s)] = " " THEN TrimRight(SubSeq(s, 1, Len(s) - 1)) ELSE s

\* String.prototype.trim
Trim(s) == TrimRight(TrimLeft(s))

\* JavaScript truthiness of a string
Truthy(s) == s # <<>>

\* a || b on strings
OrElse(a, b) == IF Truthy(a) THEN a ELSE b

---------------------------------------------------------------------------
(* The document *)

FrontIdPool == {"f1", "f2"}
DangerIdPool == {"d1", "d2"}
PortentIdPool == {"p1", "p2"}
SecretIdPool == {"s1", "s2"}
XpValues == {20, 30, 50}

NullDoc == [null |-> TRUE, fronts |-> <<>>]
Doc(fs) == [null |-> FALSE, fronts |-> fs]

Portent0 == [id |-> "p1", text |-> <<"p">>, completed |-> FALSE]
Secret0 == [id |-> "s1", xp |-> 20, text |-> <<"s">>, revealed |-> FALSE,
            revealedAt |-> "null"]
Danger0 == [id |-> "d1", name |-> <<"D">>, dangerType |-> <<"T">>,
            impulse |-> <<"i">>, impendingDoom |-> <<"o">>,
            grimPortents |-> <<Portent0>>, secrets |-> <<Secret0>>,
            locations |-> << <<"l">> >>]
Front0 == [id |-> "f1", name |-> <<"F">>, type |-> "campaign",
           cast |-> << <<"a">>, <<"b">> >>, stakes |-> << <<"k">> >>,
           playerHooks |-> <<>>, dangers |-> <<Danger0>>]

\* what the remote store holds when the window is first opened
ServerInit == <<Front0>>

Indices(s) == 1..Len(s)

\* Array.prototype.filter
RECURSIVE Filter(_, _)
Filter(s, keepIds) ==
    IF s = <<>> THEN <<>>
    ELSE IF Head(s).id \in keepIds THEN <<Head(s)>> \o Filter(Tail(s), keepIds)
    ELSE Filter(Tail(s), keepIds)

IdsOf(s) == { s[i].id : i \in Indices(s) }

\* s.filter(x => x.id !== id)
WithoutId(s, id) == Filter(s, IdsOf(s) \ {id})

\* s.splice(index, 1), index counted from 0
Splice(s, index) ==
    IF index < Len(s)
    THEN SubSeq(s, 1, index) \o SubSeq(s, index + 2, Len(s))
    ELSE s

\* s[index] = v, index counted from 0: past the end the array grows and the
\* slots in between stay unassigned
AssignAt(s, index, v) ==
    IF index < Len(s)
    THEN [s EXCEPT ![index + 1] = v]
    ELSE s \o [i \in 1..(index - Len(s)) |-> Hole] \o <<v>>

\* JSON.stringify of a sequence of strings: unassigned slots become null
JsonLines(s) == [i \in Indices(s) |-> IF s[i] = Hole THEN JsonNull ELSE s[i]]

JsonDanger(d) == [d EXCEPT !.locations = JsonLines(d.locations)]

JsonFront(f) ==
    [f EXCEPT !.cast = JsonLines(f.cast),
              !.stakes = JsonLines(f.stakes),
              !.dangers = [i \in Indices(f.dangers) |-> JsonDanger(f.dangers[i])]]

\* JSON.stringify({ fronts }) as the server parses it
ToJson(fs) == [i \in Indices(fs) |-> JsonFront(fs[i])]

---------------------------------------------------------------------------
(* Entity accessors.  An object of the document is denoted by its position; *)
(* 0 stands for undefined / null.                                          *)

\* index of the first element of s whose id is id, or 0  (Array.prototype.find)
RECURSIVE FindFrom(_, _, _)
FindFrom(s, id, i) ==
    IF i > Len(s) THEN 0
    ELSE IF s[i].id = id THEN i
    ELSE FindFrom(s, id, i + 1)

\* the last element instead of the first
FindLast(s, id) ==
    IF \E i \in Indices(s) : s[i].id = id
    THEN CHOOSE i \in Indices(s) : s[i].id = id /\ \A k \in (i + 1)..Len(s) : s[k].id # id
    ELSE 0
Find(s, id) == FindFrom(s, id, 1)

\* #getFront
GetFront(doc, frontId) ==
    IF doc.null THEN 0 ELSE Find(doc.fronts, frontId)

\* #getDanger: <<front index, danger index>> of the first match in front order
RECURSIVE GetDangerFrom(_, _, _)
GetDangerFrom(fs, dangerId, i) ==
    IF i > Len(fs) THEN <<0, 0>>
    ELSE IF Find(fs[i].dangers, dangerId) # 0
         THEN <<i, Find(fs[i].dangers, dangerId)>>
         ELSE GetDangerFrom(fs, dangerId, i + 1)

GetDanger(doc, dangerId) ==
    IF doc.null THEN <<0, 0>> ELSE GetDangerFrom(doc.fronts, dangerId, 1)

---------------------------------------------------------------------------
(* Rendering *)

ViewDanger(d, eD) ==
    [id |-> d.id, name |-> d.name, dangerType |-> d.dangerType,
     impulse |-> d.impulse, impendingDoom |-> d.impendingDoom,
     grimPortents |-> d.grimPortents, secrets |-> d.secrets,
     locations |-> d.locations, expanded |-> (d.id \in eD)]

ViewFrontAlwaysOpen(f, eF, eD) ==
    [id |-> f.id, name |-> f.name, type |-> f.type, cast |-> f.cast,
     stakes |-> f.stakes, playerHooks |-> f.playerHooks,
     dangers |-> [j \in Indices(f.dangers) |-> ViewDanger(f.dangers[j], eD)],
     expanded |-> TRUE]
ViewFront(f, eF, eD) ==
    [id |-> f.id, name |-> f.name, type |-> f.type, cast |-> f.cast,
     stakes |-> f.stakes, playerHooks |-> f.playerHooks,
     dangers |-> [j \in Indices(f.dangers) |-> ViewDanger(f.dangers[j], eD)],
     expanded |-> (f.id \in eF)]

\* the object returned by _prepareContext (after its optional fetch)
PrepareContext(doc, eF, eD, ld, err) ==
    [fronts |-> [i \in Indices(doc.fronts) |-> ViewFront(doc.fronts[i], eF, eD)],
     loading |-> ld,
     error |-> err]

\* the guard of _prepareContext: no data yet and no fetch known to be running
MustFetch(doc, ld) == doc.null /\ ~ld

---------------------------------------------------------------------------
(* Suspended handlers.  pc names the call a handler awaits, net the state  *)
(* of that call's request: sent, or answered ok / fail and not yet read.   *)

\* hadDoc: a document was held when the handler started; form: the values of
\* the form whose submission started it (closed over by the callback)
Task(op, pc, payload, dangerId, itemId, newId, saved) ==
    [op |-> op, pc |-> pc, net |-> "sent", payload |-> payload,
     dangerId |-> dangerId, itemId |-> itemId, newId |-> newId,
     saved |-> saved, flag |-> FALSE, hadDoc |-> ~frontsData.null,
     form |-> last'.form]

RenderTask == Task("render", "fetch", <<>>, "", "", "", "none")

RemoveAt(s, i) == SubSeq(s, 1, i - 1) \o SubSeq(s, i + 1, Len(s))

\* dialogs whose callback holds an object of the tree that is replaced
StaleAll(ds) ==
    { [d EXCEPT !.ref = IF @ = "live" THEN "stale" ELSE @] : d \in ds }

\* an open dialog: its kind and what its callback closes over.  ref tells
\* what became of the object the click handler looked up: "none" (the
\* callback looks it up itself), "undef" (the lookup found nothing), "live"
\* (an object of the current tree), "stale" (an object no longer in the tree)
Dlg(kind, frontId, dangerId, itemId, index, ref) ==
    [kind |-> kind, frontId |-> frontId, dangerId |-> dangerId,
     itemId |-> itemId, index |-> index, ref |-> ref]

\* the user event a step handled: a click, or a dialog button with the
\* dialog and the text submitted (after trim)
Last(phase, d, value) == [phase |-> phase, d |-> d, value |-> value, form |-> <<>>]
\* the submission of a form with several fields: value is its required text
\* (after trim), form the fields as typed
Submitted(d, value, form) == [phase |-> "submit", d |-> d, value |-> value, form |-> form]
NoLast == Last("none", Dlg("", "", "", "", 0, "none"), <<>>)
Click(kind, frontId, dangerId, itemId, index) ==
    Last("click", Dlg(kind, frontId, dangerId, itemId, index, "none"), <<>>)

---------------------------------------------------------------------------
(* The remote store (REST contract): each request is processed at some     *)
(* moment after it was sent, in any order, and may fail.                   *)

ServerSave(i, ok) ==
    /\ cont = 0
    /\ i \in Indices(tasks)
    /\ tasks[i].pc = "save" /\ tasks[i].net = "sent"
    /\ server' = IF ok THEN tasks[i].payload ELSE server
    /\ failed' = (failed \/ ~ok)
    /\ tasks' = [tasks EXCEPT ![i].net = IF ok THEN "ok" ELSE "fail"]
    /\ notes' = {}
    /\ last' = NoLast
    /\ UNCHANGED <<frontsData, expandedFronts, expandedDangers, loading, error,
                   view, rendered, windows, cont, dialogs, nActs>>

ServerFetch(i, ok) ==
    /\ cont = 0
    /\ i \in Indices(tasks)
    /\ tasks[i].pc = "fetch" /\ tasks[i].net = "sent"
    /\ tasks' = [tasks EXCEPT ![i].net = IF ok THEN "ok" ELSE "fail",
                              ![i].payload = IF ok THEN server ELSE <<>>]
    /\ failed' = (failed \/ ~ok)
    /\ notes' = {}
    /\ last' = NoLast
    /\ UNCHANGED <<frontsData, expandedFronts, expandedDangers, loading, error,
                   view, rendered, windows, server, cont, dialogs, nActs>>

---------------------------------------------------------------------------
(* #fetchFronts *)

\* lines 89-93: the flags are set and the request is sent
FetchStartLoading == TRUE
FetchStartError == NoError

\* lines 94-104: the response is read
FetchFrontsDataOnce(doc, t) == IF t.net = "ok" /\ doc.null THEN Doc(t.payload) ELSE doc
FetchFrontsDataAlways(doc, t) == Doc(t.payload)
FetchFrontsData(doc, t) == IF t.net = "ok" THEN Doc(t.payload) ELSE doc
FetchFrontsError(err, t) == IF t.net = "ok" THEN err ELSE FetchError

FetchReturnNoFinally(i) ==
    /\ cont = 0
    /\ i \in Indices(tasks)
    /\ tasks[i].pc = "fetch" /\ tasks[i].net \in {"ok", "fail"}
    /\ frontsData' = FetchFrontsData(frontsData, tasks[i])
    /\ error' = FetchFrontsError(error, tasks[i])
    /\ loading' = IF tasks[i].net = "ok" THEN FALSE ELSE loading
    /\ dialogs' = IF tasks[i].net = "ok" THEN StaleAll(dialogs) ELSE dialogs
    /\ cont' = i
    /\ notes' = {}
    /\ last' = NoLast
    /\ UNCHANGED <<expandedFronts, expandedDangers, view, rendered, windows, server, failed,
                   tasks, nActs>>

FetchReturn(i) ==
    /\ cont = 0
    /\ i \in Indices(tasks)
    /\ tasks[i].pc = "fetch" /\ tasks[i].net \in {"ok", "fail"}
    /\ frontsData' = FetchFrontsData(frontsData, tasks[i])
    /\ error' = FetchFrontsError(error, tasks[i])
    /\ loading' = FALSE
    /\ dialogs' = IF tasks[i].net = "ok" THEN StaleAll(dialogs) ELSE dialogs
    /\ cont' = i
    /\ notes' = {}
    /\ last' = NoLast
    /\ UNCHANGED <<expandedFronts, expandedDangers, view, rendered, windows, server, failed,
                   tasks, nActs>>

---------------------------------------------------------------------------
(* this.render(): _prepareContext either fetches first or builds the view  *)

\* render() called when the handlers ts are suspended and the fields hold
\* doc, ld, err: sets tasks, loading, error and view
RenderNow(ts, doc, eF, eD, ld, err) ==
    IF MustFetch(doc, ld)
    THEN /\ tasks' = Append(ts, RenderTask)
         /\ loading' = FetchStartLoading
         /\ error' = FetchStartError
         /\ view' = view
    ELSE /\ tasks' = ts
         /\ loading' = ld
         /\ error' = err
         /\ view' = PrepareContext(doc, eF, eD, ld, err)

\* the handler ts[i] goes on to await this.#fetchFronts()
AwaitFetch(ts, i) ==
    [ts EXCEPT ![i].pc = "fetch", ![i].net = "sent", ![i].payload = <<>>]

---------------------------------------------------------------------------
(* Initial state: the application object was constructed, nothing rendered *)

Init ==
    /\ frontsData = NullDoc
    /\ expandedFronts = {}
    /\ expandedDangers = {}
    /\ loading = FALSE
    /\ error = NoError
    /\ view = [fronts |-> <<>>, loading |-> FALSE, error |-> NoError]
    /\ rendered = FALSE
    /\ windows = 0
    /\ server = ServerInit
    /\ tasks = <<>>
    /\ cont = 0
    /\ dialogs = {}
    /\ notes = {}
    /\ last = NoLast
    /\ failed = FALSE
    /\ nActs = 0

\* a user event can be handled: the window is open and no microtask is pending
Idle == rendered /\ cont = 0

\* one more handler may be started
CanStart == Idle /\ Len(tasks) < MaxTasks /\ nActs < MaxActs

\* new FrontManagerApp().render(true): the first render
Open ==
    /\ ~rendered
    /\ rendered' = TRUE
    /\ last' = Click("open", "", "", "", 0)
    /\ RenderNow(tasks, frontsData, expandedFronts, expandedDangers, loading, error)
    /\ notes' = {}
    /\ UNCHANGED <<frontsData, expandedFronts, expandedDangers, server, failed, cont,
                   dialogs, nActs, windows>>

\* new FrontManagerApp().render(true) when an application object exists
\* already: the constructor (lines 52-55) makes the new object the instance,
\* with fields of its own, and _prepareContext fetches.  The object it
\* supersedes is at rest and, if its window was open, stays open.
NewInstance ==
    /\ cont = 0 /\ tasks = <<>> /\ dialogs = {}
    /\ windows' = IF rendered THEN windows + 1 ELSE windows
    /\ rendered' = TRUE
    /\ frontsData' = NullDoc
    /\ expandedFronts' = {}
    /\ expandedDangers' = {}
    /\ last' = Click("open", "", "", "", 0)
    /\ tasks' = <<[RenderTask EXCEPT !.hadDoc = FALSE]>>
    /\ loading' = FetchStartLoading
    /\ error' = FetchStartError
    /\ view' = [fronts |-> <<>>, loading |-> FALSE, error |-> NoError]
    /\ notes' = {}
    /\ UNCHANGED <<server, failed, cont, dialogs, nActs>>

\* window.FrontManager.open (line 1009)
FrontManagerOpen ==
    /\ windows < MaxWindows
    /\ NewInstance

\* instance.close() of the scene control (line 993), the instance at rest
Close ==
    /\ cont = 0 /\ tasks = <<>> /\ dialogs = {}
    /\ rendered' = FALSE
    /\ last' = Click("close", "", "", "", 0)
    /\ notes' = {}
    /\ UNCHANGED <<frontsData, expandedFronts, expandedDangers, loading, error, view,
                   windows, server, failed, tasks, cont, dialogs, nActs>>

\* onChange of the scene control button (lines 990-997)
SceneControlChange == IF rendered THEN Close ELSE NewInstance

---------------------------------------------------------------------------
(* Refresh *)

\* what refresh does to the document before it fetches
RefreshDataKept(doc) == doc
RefreshData(doc) == NullDoc

\* the refresh button (lines 285-294) and the public refresh() (961-965):
\* both drop the document and fetch
RefreshStart(op) ==
    /\ CanStart
    /\ frontsData' = RefreshData(frontsData)
    /\ last' = Click(op, "", "", "", 0)
    /\ dialogs' = StaleAll(dialogs)
    /\ loading' = FetchStartLoading
    /\ error' = FetchStartError
    /\ tasks' = Append(tasks, Task(op, "fetch", <<>>, "", "", "", "none"))
    /\ notes' = {}
    /\ nActs' = nActs + 1
    /\ UNCHANGED <<expandedFronts, expandedDangers, view, rendered, windows, server, failed, cont>>

RefreshClick == RefreshStart("refresh-button")

Refresh == RefreshStart("refresh")

---------------------------------------------------------------------------
(* The code after "await this.#fetchFronts()" in each handler *)

AddsFront == {"add-front"}
AddsDanger == {"add-danger"}
TextOps == {"edit-front-name", "add-cast", "edit-cast", "add-stake", "edit-stake",
            "edit-impulse", "edit-doom", "add-portent", "edit-portent",
            "add-location", "edit-location"}

\* the info notification a handler ends with
EndNote(t) ==
    CASE t.op \in TextOps -> {"info: Gespeichert"}
      [] t.op = "refresh-button" -> {"info: Fronten aktualisiert"}
      [] t.op = "add-front" -> {"info: Front erstellt"}
      [] t.op = "add-danger" -> {"info: Danger erstellt"}
      [] t.op = "edit-danger" -> {"info: Danger aktualisiert"}
      [] t.op = "add-secret" -> {"info: Secret erstellt"}
      [] t.op = "edit-secret" -> {"info: Secret aktualisiert"}
      [] t.op = "toggle-secret" ->
            IF t.flag THEN {"info: Secret gelueftet"} ELSE {"info: Secret zurueckgesetzt"}
      [] OTHER -> {}

\* the expanded sets after the handler's add (lines 728, 792)
ExpandedFrontsAfter(t, eF) == IF t.op \in AddsFront THEN eF \cup {t.newId} ELSE eF
ExpandedDangersAfter(t, eD) == IF t.op \in AddsDanger THEN eD \cup {t.newId} ELSE eD

Resume ==
    /\ cont # 0
    /\ last' = NoLast
    /\ LET t == tasks[cont]
           rest == RemoveAt(tasks, cont)
       IN IF t.op = "render"
          THEN \* _prepareContext goes on after its fetch (lines 67-81)
               /\ tasks' = rest
               /\ view' = PrepareContext(frontsData, expandedFronts, expandedDangers,
                                         loading, error)
               /\ notes' = {}
               /\ UNCHANGED <<expandedFronts, expandedDangers, loading, error>>
          ELSE /\ expandedFronts' = ExpandedFrontsAfter(t, expandedFronts)
               /\ expandedDangers' = ExpandedDangersAfter(t, expandedDangers)
               /\ RenderNow(rest, frontsData, expandedFronts', expandedDangers',
                            loading, error)
               /\ notes' = EndNote(t)
    /\ cont' = 0
    /\ UNCHANGED <<frontsData, rendered, windows, server, failed, dialogs, nActs>>

---------------------------------------------------------------------------
(* #saveFronts and the mutating handlers' "save, fetch, render" *)

\* #saveFronts reads this.#frontsData.fronts: a null document throws inside
\* its try block
SaveThrows(doc) == doc.null

\* A handler has changed the tree to doc and calls #saveFronts: with a
\* document the request is sent; without one #saveFronts has already
\* returned false and the handler awaits #fetchFronts.
\* Sets tasks, loading, error, notes, failed.
SaveStart(op, doc, newId) ==
    IF SaveThrows(doc)
    THEN /\ tasks' = Append(tasks, Task(op, "fetch", <<>>, "", "", newId, "false"))
         /\ loading' = FetchStartLoading
         /\ error' = FetchStartError
         /\ notes' = {"error: Fehler beim Speichern"}
         /\ failed' = TRUE
    ELSE /\ tasks' = Append(tasks, Task(op, "save", ToJson(doc.fronts), "", "", newId, "none"))
         /\ notes' = {}
         /\ UNCHANGED <<loading, error, failed>>

\* the value #saveFronts returns for a response
SaveResult(net) == IF net = "ok" THEN "true" ELSE "false"

\* #saveFronts returns (lines 115-125); whatever it returns, the handler goes
\* on to "await this.#fetchFronts()"
SaveReturn(i) ==
    /\ cont = 0
    /\ i \in Indices(tasks)
    /\ tasks[i].pc = "save" /\ tasks[i].net \in {"ok", "fail"}
    /\ last' = NoLast
    /\ notes' = IF tasks[i].net = "ok" THEN {} ELSE {"error: Fehler beim Speichern"}
    /\ tasks' = AwaitFetch([tasks EXCEPT ![i].saved = SaveResult(tasks[i].net)], i)
    /\ loading' = FetchStartLoading
    /\ error' = FetchStartError
    /\ UNCHANGED <<frontsData, expandedFronts, expandedDangers, view, rendered, windows,
                   server, failed, cont, dialogs, nActs>>

---------------------------------------------------------------------------
(* Ids and dialogs *)

DangerIds(d) == {d.id} \cup IdsOf(d.grimPortents) \cup IdsOf(d.secrets)
FrontIds(f) == {f.id} \cup UNION { DangerIds(f.dangers[j]) : j \in Indices(f.dangers) }
AllIds(fs) == UNION { FrontIds(fs[i]) : i \in Indices(fs) }

UsedIds ==
    AllIds(frontsData.fronts) \cup AllIds(server) \cup AllIds(view.fronts)
      \cup expandedFronts \cup expandedDangers
      \cup UNION { AllIds(tasks[i].payload) \cup {tasks[i].newId} : i \in Indices(tasks) }

\* #generateId: an id that was never used
CanGenerate(pool) == pool \ UsedIds # {}
GenerateId(pool) == CHOOSE id \in pool \ UsedIds : TRUE

CanOpenDialog == Idle /\ Cardinality(dialogs) < MaxDialogs

OpenDialog(d) ==
    /\ CanOpenDialog
    /\ dialogs' = dialogs \cup {d}
    /\ last' = Last("click", d, <<>>)
    /\ notes' = {}
    /\ UNCHANGED <<frontsData, expandedFronts, expandedDangers, loading, error,
                   view, rendered, windows, server, failed, tasks, cont, nActs>>

\* the result of a handler body: go = its guard passed, so that it saves,
\* fetches and renders; doc = the document after its assignment
Go(doc) == [go |-> TRUE, doc |-> doc]
Skip(doc) == [go |-> FALSE, doc |-> doc]

LinesOk(fs) ==
    \A i \in Indices(fs) :
        /\ Len(fs[i].cast) <= MaxLines
        /\ Len(fs[i].stakes) <= MaxLines
        /\ \A j \in Indices(fs[i].dangers) : Len(fs[i].dangers[j].locations) <= MaxLines

\* a handler body gave r: the handler saves, fetches and renders, or is over
Finish(op, r, newId, endNote) ==
    /\ frontsData' = r.doc
    /\ IF r.go
       THEN /\ Len(tasks) < MaxTasks /\ nActs < MaxActs
            /\ LinesOk(r.doc.fronts)
            /\ SaveStart(op, r.doc, newId)
            /\ nActs' = nActs + 1
       ELSE /\ notes' = endNote
            /\ UNCHANGED <<tasks, loading, error, failed, nActs>>
    /\ UNCHANGED <<expandedFronts, expandedDangers, view, rendered, windows, server, cont>>

---------------------------------------------------------------------------
(* Handlers on a front (lines 233-249, 308-428) *)

ViewFrontIds == IdsOf(view.fronts)
ViewFrontOf(frontId) == view.fronts[Find(view.fronts, frontId)]

\* toggle-front
ToggleFrontAddOnly(eF, frontId) == eF \cup {frontId}
ToggleFront(eF, frontId) ==
    IF frontId \in eF THEN eF \ {frontId} ELSE eF \cup {frontId}

ToggleFrontClick(frontId) ==
    /\ Idle
    /\ frontId \in ViewFrontIds
    /\ MustFetch(frontsData, loading) => Len(tasks) < MaxTasks
    /\ expandedFronts' = ToggleFront(expandedFronts, frontId)
    /\ last' = Click("toggle-front", frontId, "", "", 0)
    /\ RenderNow(tasks, frontsData, expandedFronts', expandedDangers, loading, error)
    /\ notes' = {}
    /\ UNCHANGED <<frontsData, expandedDangers, rendered, windows, server, failed, cont, dialogs, nActs>>

\* edit-front-name, callback
EditFrontName(doc, frontId, v) ==
    LET fi == GetFront(doc, frontId)
    IN IF fi = 0 THEN Skip(doc) ELSE Go([doc EXCEPT !.fronts[fi].name = v])

\* add-cast / add-stake, callback
AddLine(doc, field, frontId, v) ==
    LET fi == GetFront(doc, frontId)
    IN IF fi = 0 THEN Skip(doc)
       ELSE Go([doc EXCEPT !.fronts[fi][field] = Append(@, v)])

\* edit-cast / edit-stake, callback: front was looked up by the click handler
EditLine(doc, field, d, v) ==
    CASE d.ref = "undef" -> Skip(doc)
      [] d.ref = "stale" -> Go(doc)
      [] d.ref = "live" ->
            Go([doc EXCEPT !.fronts[GetFront(doc, d.frontId)][field] =
                               AssignAt(@, d.index, v)])

\* delete-cast / delete-stake
DeleteLine(doc, field, frontId, index) ==
    LET fi == GetFront(doc, frontId)
    IN IF fi = 0 THEN Skip(doc)
       ELSE Go([doc EXCEPT !.fronts[fi][field] = Splice(@, index)])

LineFields == {"cast", "stakes"}
AddOp(field) == IF field = "cast" THEN "add-cast" ELSE "add-stake"
EditOp(field) == IF field = "cast" THEN "edit-cast" ELSE "edit-stake"
DeleteOp(field) == IF field = "cast" THEN "delete-cast" ELSE "delete-stake"
FieldOf(kind) == IF kind \in {"add-cast", "edit-cast", "delete-cast"} THEN "cast" ELSE "stakes"

\* what the click handler's lookup of a front leaves in the closure
FrontRef(frontId) == IF GetFront(frontsData, frontId) = 0 THEN "undef" ELSE "live"

EditFrontNameClick(frontId) ==
    /\ frontId \in ViewFrontIds
    /\ OpenDialog(Dlg("edit-front-name", frontId, "", "", 0, "none"))

AddLineClick(field, frontId) ==
    /\ frontId \in ViewFrontIds
    /\ OpenDialog(Dlg(AddOp(field), frontId, "", "", 0, "none"))

EditLineClick(field, frontId, index) ==
    /\ frontId \in ViewFrontIds
    /\ index \in 0..(Len(ViewFrontOf(frontId)[field]) - 1)
    /\ OpenDialog(Dlg(EditOp(field), frontId, "", "", index, FrontRef(frontId)))

DeleteLineClick(field, frontId, index) ==
    /\ Idle
    /\ frontId \in ViewFrontIds
    /\ index \in 0..(Len(ViewFrontOf(frontId)[field]) - 1)
    /\ last' = Click(DeleteOp(field), frontId, "", "", index)
    /\ Finish(DeleteOp(field), DeleteLine(frontsData, field, frontId, index), "", {})
    /\ UNCHANGED dialogs

---------------------------------------------------------------------------
(* Handlers on a danger (lines 251-263, 430-652) *)

ViewDangerIds ==
    UNION { IdsOf(view.fronts[i].dangers) : i \in Indices(view.fronts) }

\* the danger shown with this id (the first one, as ids are unique)
ViewDangerOf(dangerId) ==
    LET at == GetDangerFrom(view.fronts, dangerId, 1)
    IN view.fronts[at[1]].dangers[at[2]]

Found(at) == at[1] # 0

\* toggle-danger
ToggleDanger(eD, dangerId) ==
    IF dangerId \in eD THEN eD \ {dangerId} ELSE eD \cup {dangerId}

ToggleDangerClick(dangerId) ==
    /\ Idle
    /\ dangerId \in ViewDangerIds
    /\ MustFetch(frontsData, loading) => Len(tasks) < MaxTasks
    /\ expandedDangers' = ToggleDanger(expandedDangers, dangerId)
    /\ last' = Click("toggle-danger", "", dangerId, "", 0)
    /\ RenderNow(tasks, frontsData, expandedFronts, expandedDangers', loading, error)
    /\ notes' = {}
    /\ UNCHANGED <<frontsData, expandedFronts, rendered, windows, server, failed, cont, dialogs, nActs>>

\* what the click handler's lookups leave in the closure
DangerRef(dangerId) ==
    IF Found(GetDanger(frontsData, dangerId)) THEN "live" ELSE "undef"

ItemRef(field, dangerId, itemId) ==
    LET at == GetDanger(frontsData, dangerId)
    IN IF Found(at) /\ Find(frontsData.fronts[at[1]].dangers[at[2]][field], itemId) # 0
       THEN "live" ELSE "undef"

\* delete-danger, after Dialog.confirm
DeleteDangerUnconfirmed(doc, frontId, dangerId, confirmed) ==
    LET fi == GetFront(doc, frontId)
    IN IF fi # 0
       THEN Go([doc EXCEPT !.fronts[fi].dangers = WithoutId(@, dangerId)])
       ELSE Skip(doc)
DeleteDanger(doc, frontId, dangerId, confirmed) ==
    LET fi == GetFront(doc, frontId)
    IN IF confirmed /\ fi # 0
       THEN Go([doc EXCEPT !.fronts[fi].dangers = WithoutId(@, dangerId)])
       ELSE Skip(doc)

\* edit-impulse / edit-doom, callback: the danger was looked up by the click
EditDangerField(doc, field, d, v) ==
    CASE d.ref = "undef" -> Skip(doc)
      [] d.ref = "stale" -> Go(doc)
      [] d.ref = "live" ->
            LET at == GetDanger(doc, d.dangerId)
            IN Go([doc EXCEPT !.fronts[at[1]].dangers[at[2]][field] = v])

\* add-portent, callback
AddPortent(doc, dangerId, v, id) ==
    LET at == GetDanger(doc, dangerId)
    IN IF Found(at)
       THEN Go([doc EXCEPT !.fronts[at[1]].dangers[at[2]].grimPortents =
                    Append(@, [id |-> id, text |-> v, completed |-> FALSE])])
       ELSE Skip(doc)

\* edit-portent, callback: the portent was looked up by the click
EditPortent(doc, d, v) ==
    CASE d.ref = "undef" -> Skip(doc)
      [] d.ref = "stale" -> Go(doc)
      [] d.ref = "live" ->
            LET at == GetDanger(doc, d.dangerId)
                pi == Find(doc.fronts[at[1]].dangers[at[2]].grimPortents, d.itemId)
            IN Go([doc EXCEPT !.fronts[at[1]].dangers[at[2]].grimPortents[pi].text = v])

\* delete-portent / delete-secret
DeleteItem(doc, field, dangerId, itemId) ==
    LET at == GetDanger(doc, dangerId)
    IN IF Found(at)
       THEN Go([doc EXCEPT !.fronts[at[1]].dangers[at[2]][field] = WithoutId(@, itemId)])
       ELSE Skip(doc)

\* add-location, callback
AddLocation(doc, dangerId, v) ==
    LET at == GetDanger(doc, dangerId)
    IN IF Found(at)
       THEN Go([doc EXCEPT !.fronts[at[1]].dangers[at[2]].locations = Append(@, v)])
       ELSE Skip(doc)

\* edit-location, callback: the danger was looked up by the click
EditLocation(doc, d, v) ==
    CASE d.ref = "undef" -> Skip(doc)
      [] d.ref = "stale" -> Go(doc)
      [] d.ref = "live" ->
            LET at == GetDanger(doc, d.dangerId)
            IN Go([doc EXCEPT !.fronts[at[1]].dangers[at[2]].locations =
                                  AssignAt(@, d.index, v)])

\* delete-location
DeleteLocation(doc, dangerId, index) ==
    LET at == GetDanger(doc, dangerId)
    IN IF Found(at)
       THEN Go([doc EXCEPT !.fronts[at[1]].dangers[at[2]].locations = Splice(@, index)])
       ELSE Skip(doc)

\* dialogs whose callback holds the danger, or an object below it, that a
\* delete handler takes out of the tree
DangerKinds == {"edit-impulse", "edit-doom", "edit-location", "edit-danger",
                "edit-portent", "edit-secret"}
StaleDanger(ds, dangerId) ==
    { [d EXCEPT !.ref = IF d.kind \in DangerKinds /\ d.dangerId = dangerId /\ @ = "live"
                        THEN "stale" ELSE @] : d \in ds }
StaleItem(ds, kind, dangerId, itemId) ==
    { [d EXCEPT !.ref = IF d.kind = kind /\ d.dangerId = dangerId
                           /\ d.itemId = itemId /\ @ = "live"
                        THEN "stale" ELSE @] : d \in ds }

DeleteDangerClick(frontId, dangerId) ==
    /\ frontId \in ViewFrontIds
    /\ dangerId \in IdsOf(ViewFrontOf(frontId).dangers)
    /\ OpenDialog(Dlg("delete-danger", frontId, dangerId, "", 0, "none"))

DeleteDangerConfirm(d, confirmed) ==
    /\ Idle
    /\ d \in dialogs /\ d.kind = "delete-danger"
    /\ last' = Last(IF confirmed THEN "confirm-yes" ELSE "confirm-no", d, <<>>)
    /\ LET r == DeleteDanger(frontsData, d.frontId, d.dangerId, confirmed)
       IN /\ Finish("delete-danger", r, "", {})
          /\ dialogs' = IF r.go THEN StaleDanger(dialogs \ {d}, d.dangerId)
                        ELSE dialogs \ {d}

DangerTextClick(kind, dangerId) ==
    /\ kind \in {"add-portent", "add-location"}
    /\ dangerId \in ViewDangerIds
    /\ OpenDialog(Dlg(kind, "", dangerId, "", 0, "none"))

EditDangerFieldClick(kind, dangerId) ==
    /\ kind \in {"edit-impulse", "edit-doom"}
    /\ dangerId \in ViewDangerIds
    /\ OpenDialog(Dlg(kind, "", dangerId, "", 0, DangerRef(dangerId)))

EditPortentClick(dangerId, portentId) ==
    /\ dangerId \in ViewDangerIds
    /\ portentId \in IdsOf(ViewDangerOf(dangerId).grimPortents)
    /\ OpenDialog(Dlg("edit-portent", "", dangerId, portentId, 0,
                      ItemRef("grimPortents", dangerId, portentId)))

EditLocationClick(dangerId, index) ==
    /\ dangerId \in ViewDangerIds
    /\ index \in 0..(Len(ViewDangerOf(dangerId).locations) - 1)
    /\ OpenDialog(Dlg("edit-location", "", dangerId, "", index, DangerRef(dangerId)))

DeletePortentClick(dangerId, portentId) ==
    /\ Idle
    /\ dangerId \in ViewDangerIds
    /\ portentId \in IdsOf(ViewDangerOf(dangerId).grimPortents)
    /\ last' = Click("delete-portent", "", dangerId, portentId, 0)
    /\ LET r == DeleteItem(frontsData, "grimPortents", dangerId, portentId)
       IN /\ Finish("delete-portent", r, "", {})
          /\ dialogs' = IF r.go THEN StaleItem(dialogs, "edit-portent", dangerId, portentId)
                        ELSE dialogs

DeleteSecretClick(dangerId, secretId) ==
    /\ Idle
    /\ dangerId \in ViewDangerIds
    /\ secretId \in IdsOf(ViewDangerOf(dangerId).secrets)
    /\ last' = Click("delete-secret", "", dangerId, secretId, 0)
    /\ LET r == DeleteItem(frontsData, "secrets", dangerId, secretId)
       IN /\ Finish("delete-secret", r, "", {})
          /\ dialogs' = IF r.go THEN StaleItem(dialogs, "edit-secret", dangerId, secretId)
                        ELSE dialogs

DeleteLocationClick(dangerId, index) ==
    /\ Idle
    /\ dangerId \in ViewDangerIds
    /\ index \in 0..(Len(ViewDangerOf(dangerId).locations) - 1)
    /\ last' = Click("delete-location", "", dangerId, "", index)
    /\ Finish("delete-location", DeleteLocation(frontsData, dangerId, index), "", {})
    /\ UNCHANGED dialogs

---------------------------------------------------------------------------
(* #showEditTextDialog (lines 659-688) *)

\* onSave(value) of the handler that opened the dialog
TextBody(doc, d, v) ==
    CASE d.kind = "edit-front-name" -> EditFrontName(doc, d.frontId, v)
      [] d.kind \in {"add-cast", "add-stake"} -> AddLine(doc, FieldOf(d.kind), d.frontId, v)
      [] d.kind \in {"edit-cast", "edit-stake"} -> EditLine(doc, FieldOf(d.kind), d, v)
      [] d.kind = "edit-impulse" -> EditDangerField(doc, "impulse", d, v)
      [] d.kind = "edit-doom" -> EditDangerField(doc, "impendingDoom", d, v)
      [] d.kind = "add-portent" -> AddPortent(doc, d.dangerId, v, GenerateId(PortentIdPool))
      [] d.kind = "edit-portent" -> EditPortent(doc, d, v)
      [] d.kind = "add-location" -> AddLocation(doc, d.dangerId, v)
      [] d.kind = "edit-location" -> EditLocation(doc, d, v)

\* the guard of the save button's callback
AcceptText(value) == Truthy(value)

\* the save button
TextSubmit(d, raw) ==
    /\ Idle
    /\ d \in dialogs /\ d.kind \in TextOps
    /\ d.kind = "add-portent" => CanGenerate(PortentIdPool)
    /\ last' = Last("submit", d, Trim(raw))
    /\ dialogs' = dialogs \ {d}
    /\ LET value == Trim(raw)
       IN IF AcceptText(value)
          THEN Finish(d.kind, TextBody(frontsData, d, value), "", {"info: Gespeichert"})
          ELSE /\ notes' = {}
               /\ UNCHANGED <<frontsData, expandedFronts, expandedDangers, loading,
                              error, view, rendered, windows, server, failed, tasks, cont, nActs>>

\* the cancel button (or closing the window) of any dialog but Dialog.confirm
DialogCancel(d) ==
    /\ Idle
    /\ d \in dialogs /\ d.kind # "delete-danger"
    /\ last' = Last("cancel", d, <<>>)
    /\ dialogs' = dialogs \ {d}
    /\ notes' = {}
    /\ UNCHANGED <<frontsData, expandedFronts, expandedDangers, loading, error,
                   view, rendered, windows, server, failed, tasks, cont, nActs>>

---------------------------------------------------------------------------
(* Structured dialogs (lines 690-955) *)

\* what is typed into the four fields of a danger form: name, type, impulse,
\* doom, each of them left blank in some form
DangerForms ==
    { << <<"x">>, <<"y">>, <<"y">>, <<"y">> >>,
      << <<" ">>, <<"y">>, <<"y">>, <<"y">> >>,
      << <<" ", "x">>, <<>>, <<"y">>, <<"y">> >>,
      << <<"x">>, <<"y">>, <<" ">>, <<"y">> >>,
      << <<"x">>, <<"y">>, <<"y">>, <<>> >> }
FrontTypes == {"campaign", "adventure"}

Quiet ==
    /\ notes' = {}
    /\ UNCHANGED <<frontsData, expandedFronts, expandedDangers, loading, error,
                   view, rendered, windows, server, failed, tasks, cont, nActs>>

\* #showAddFrontDialog, callback (lines 712-732)
NewFront(id, name, type) ==
    [id |-> id, name |-> name, type |-> type, cast |-> <<>>, stakes |-> <<>>,
     playerHooks |-> <<>>, dangers |-> <<>>]

AddFront(doc, name, type, id) ==
    Go([doc EXCEPT !.fronts = Append(@, NewFront(id, name, type))])

AddFrontClick ==
    OpenDialog(Dlg("add-front", "", "", "", 0, "none"))

AddFrontSubmit(d, rawName, type) ==
    /\ Idle
    /\ d \in dialogs /\ d.kind = "add-front"
    /\ last' = Last("submit", d, Trim(rawName))
    /\ dialogs' = dialogs \ {d}
    /\ LET name == Trim(rawName)
       IN IF ~Truthy(name) THEN Quiet
          ELSE IF frontsData.null
          THEN \* this.#frontsData.fronts of null: the callback throws
               /\ notes' = {"TypeError"}
               /\ UNCHANGED <<frontsData, expandedFronts, expandedDangers, loading,
                              error, view, rendered, windows, server, failed, tasks, cont, nActs>>
          ELSE /\ CanGenerate(FrontIdPool)
               /\ Finish("add-front",
                         AddFront(frontsData, name, type, GenerateId(FrontIdPool)),
                         GenerateId(FrontIdPool), {})

\* #showAddDangerDialog, callback (lines 770-797)
NewDanger(id, name, dangerType, impulse, doom) ==
    [id |-> id, name |-> name,
     dangerType |-> OrElse(dangerType, <<"Unknown">>),
     impulse |-> OrElse(impulse, <<"to cause chaos">>),
     impendingDoom |-> OrElse(doom, <<"Destruction">>),
     grimPortents |-> <<>>, secrets |-> <<>>, locations |-> <<>>]

AddDangerFirst(doc, frontId, nd) ==
    LET fi == GetFront(doc, frontId)
    IN IF fi = 0 THEN Skip(doc)
       ELSE Go([doc EXCEPT !.fronts[fi].dangers = <<nd>> \o @])
AddDanger(doc, frontId, nd) ==
    LET fi == GetFront(doc, frontId)
    IN IF fi = 0 THEN Skip(doc)
       ELSE Go([doc EXCEPT !.fronts[fi].dangers = Append(@, nd)])

AddDangerClick(frontId) ==
    /\ frontId \in ViewFrontIds
    /\ OpenDialog(Dlg("add-danger", frontId, "", "", 0, "none"))

AddDangerSubmit(d, rawName, rawType, rawImpulse, rawDoom) ==
    /\ Idle
    /\ d \in dialogs /\ d.kind = "add-danger"
    /\ last' = Submitted(d, Trim(rawName), <<rawName, rawType, rawImpulse, rawDoom>>)
    /\ dialogs' = dialogs \ {d}
    /\ LET name == Trim(rawName)
       IN IF ~Truthy(name) THEN Quiet
          ELSE /\ CanGenerate(DangerIdPool)
               /\ Finish("add-danger",
                         AddDanger(frontsData, d.frontId,
                                   NewDanger(GenerateId(DangerIdPool), name, Trim(rawType),
                                             Trim(rawImpulse), Trim(rawDoom))),
                         GenerateId(DangerIdPool), {})

\* #showEditDangerDialog (lines 808-857): the danger is looked up when the
\* dialog opens; the callback assigns the four fields and saves
EditDanger(doc, d, name, dangerType, impulse, doom) ==
    IF d.ref = "live"
    THEN LET at == GetDanger(doc, d.dangerId)
         IN Go([doc EXCEPT !.fronts[at[1]].dangers[at[2]].name = name,
                           !.fronts[at[1]].dangers[at[2]].dangerType = dangerType,
                           !.fronts[at[1]].dangers[at[2]].impulse = impulse,
                           !.fronts[at[1]].dangers[at[2]].impendingDoom = doom])
    ELSE Go(doc)

EditDangerClick(dangerId) ==
    /\ dangerId \in ViewDangerIds
    /\ DangerRef(dangerId) = "live"
    /\ OpenDialog(Dlg("edit-danger", "", dangerId, "", 0, "live"))

EditDangerSubmit(d, rawName, rawType, rawImpulse, rawDoom) ==
    /\ Idle
    /\ d \in dialogs /\ d.kind = "edit-danger"
    /\ last' = Submitted(d, Trim(rawName), <<rawName, rawType, rawImpulse, rawDoom>>)
    /\ dialogs' = dialogs \ {d}
    /\ Finish("edit-danger",
              EditDanger(frontsData, d, Trim(rawName), Trim(rawType),
                         Trim(rawImpulse), Trim(rawDoom)),
              "", {})

\* #showAddSecretDialog, callback (lines 882-903)
NewSecretStamped(id, xp, text) ==
    [id |-> id, xp |-> xp, text |-> text, revealed |-> FALSE, revealedAt |-> "ts"]
NewSecret(id, xp, text) ==
    [id |-> id, xp |-> xp, text |-> text, revealed |-> FALSE, revealedAt |-> "null"]

AddSecret(doc, dangerId, ns) ==
    LET at == GetDanger(doc, dangerId)
    IN IF Found(at)
       THEN Go([doc EXCEPT !.fronts[at[1]].dangers[at[2]].secrets = Append(@, ns)])
       ELSE Skip(doc)

AddSecretClick(dangerId) ==
    /\ dangerId \in ViewDangerIds
    /\ OpenDialog(Dlg("add-secret", "", dangerId, "", 0, "none"))

AddSecretSubmit(d, xp, rawText) ==
    /\ Idle
    /\ d \in dialogs /\ d.kind = "add-secret"
    /\ last' = Last("submit", d, Trim(rawText))
    /\ dialogs' = dialogs \ {d}
    /\ LET text == Trim(rawText)
       IN IF ~Truthy(text) THEN Quiet
          ELSE /\ CanGenerate(SecretIdPool)
               /\ Finish("add-secret",
                         AddSecret(frontsData, d.dangerId,
                                   NewSecret(GenerateId(SecretIdPool), xp, text)),
                         "", {})

\* #showEditSecretDialog (lines 914-955): the secret is looked up by the
\* click handler (lines 575-584); the callback assigns xp and text and saves
EditSecretResets(doc, d, xp, text) ==
    IF d.ref = "live"
    THEN LET at == GetDanger(doc, d.dangerId)
             si == Find(doc.fronts[at[1]].dangers[at[2]].secrets, d.itemId)
         IN Go([doc EXCEPT !.fronts[at[1]].dangers[at[2]].secrets[si].xp = xp,
                           !.fronts[at[1]].dangers[at[2]].secrets[si].text = text,
                           !.fronts[at[1]].dangers[at[2]].secrets[si].revealed = FALSE])
    ELSE Go(doc)
EditSecret(doc, d, xp, text) ==
    IF d.ref = "live"
    THEN LET at == GetDanger(doc, d.dangerId)
             si == Find(doc.fronts[at[1]].dangers[at[2]].secrets, d.itemId)
         IN Go([doc EXCEPT !.fronts[at[1]].dangers[at[2]].secrets[si].xp = xp,
                           !.fronts[at[1]].dangers[at[2]].secrets[si].text = text])
    ELSE Go(doc)

EditSecretClick(dangerId, secretId) ==
    /\ dangerId \in ViewDangerIds
    /\ secretId \in IdsOf(ViewDangerOf(dangerId).secrets)
    /\ ItemRef("secrets", dangerId, secretId) = "live"
    /\ OpenDialog(Dlg("edit-secret", "", dangerId, secretId, 0, "live"))

EditSecretSubmit(d, xp, rawText) ==
    /\ Idle
    /\ d \in dialogs /\ d.kind = "edit-secret"
    /\ last' = Last("submit", d, Trim(rawText))
    /\ dialogs' = dialogs \ {d}
    /\ Finish("edit-secret", EditSecret(frontsData, d, xp, Trim(rawText)), "", {})

---------------------------------------------------------------------------
(* #toggleSecret / #togglePortent (lines 128-183, 265-283) *)

ToggleStart(op, dangerId, itemId) ==
    /\ CanStart
    /\ last' = Click(op, "", dangerId, itemId, 0)
    /\ tasks' = Append(tasks, Task(op, "toggle", <<>>, dangerId, itemId, "", "none"))
    /\ notes' = {}
    /\ nActs' = nActs + 1
    /\ UNCHANGED <<frontsData, expandedFronts, expandedDangers, loading, error,
                   view, rendered, windows, server, failed, cont, dialogs>>

ToggleSecretClick(dangerId, secretId) ==
    /\ dangerId \in ViewDangerIds
    /\ secretId \in IdsOf(ViewDangerOf(dangerId).secrets)
    /\ ToggleStart("toggle-secret", dangerId, secretId)

TogglePortentClick(dangerId, portentId) ==
    /\ dangerId \in ViewDangerIds
    /\ portentId \in IdsOf(ViewDangerOf(dangerId).grimPortents)
    /\ ToggleStart("toggle-portent", dangerId, portentId)

\* the store flips revealed / completed of the item and answers with it
FlipSecret(x) ==
    [x EXCEPT !.revealed = ~@, !.revealedAt = IF x.revealed THEN "null" ELSE "ts"]
FlipPortent(x) == [x EXCEPT !.completed = ~@]

ServerToggle(i, ok) ==
    /\ cont = 0
    /\ i \in Indices(tasks)
    /\ tasks[i].pc = "toggle" /\ tasks[i].net = "sent"
    /\ LET t == tasks[i]
           field == IF t.op = "toggle-secret" THEN "secrets" ELSE "grimPortents"
           at == GetDangerFrom(server, t.dangerId, 1)
           xi == IF Found(at) THEN Find(server[at[1]].dangers[at[2]][field], t.itemId) ELSE 0
       IN IF ok
          THEN /\ xi # 0
               /\ LET x == server[at[1]].dangers[at[2]][field][xi]
                      y == IF t.op = "toggle-secret" THEN FlipSecret(x) ELSE FlipPortent(x)
                  IN /\ server' = [server EXCEPT ![at[1]].dangers[at[2]][field][xi] = y]
                     /\ tasks' = [tasks EXCEPT ![i].net = "ok",
                                     ![i].flag = IF t.op = "toggle-secret"
                                                 THEN y.revealed ELSE y.completed]
          ELSE /\ server' = server
               /\ tasks' = [tasks EXCEPT ![i].net = "fail"]
    /\ failed' = (failed \/ ~ok)
    /\ notes' = {}
    /\ last' = NoLast
    /\ UNCHANGED <<frontsData, expandedFronts, expandedDangers, loading, error,
                   view, rendered, windows, cont, dialogs, nActs>>

\* the toggle response is read: on success the handler awaits #fetchFronts,
\* on failure it reports and ends
ToggleReturnFetchAlways(i) ==
    /\ cont = 0
    /\ i \in Indices(tasks)
    /\ tasks[i].pc = "toggle" /\ tasks[i].net \in {"ok", "fail"}
    /\ last' = NoLast
    /\ tasks' = AwaitFetch(tasks, i)
    /\ loading' = FetchStartLoading
    /\ error' = FetchStartError
    /\ notes' = IF tasks[i].net = "ok" THEN {} ELSE {"error: Fehler"}
    /\ UNCHANGED <<frontsData, expandedFronts, expandedDangers, view, rendered, windows,
                   server, failed, cont, dialogs, nActs>>
ToggleReturn(i) ==
    /\ cont = 0
    /\ i \in Indices(tasks)
    /\ tasks[i].pc = "toggle" /\ tasks[i].net \in {"ok", "fail"}
    /\ last' = NoLast
    /\ IF tasks[i].net = "ok"
       THEN /\ tasks' = AwaitFetch(tasks, i)
            /\ loading' = FetchStartLoading
            /\ error' = FetchStartError
            /\ notes' = {}
       ELSE /\ tasks' = RemoveAt(tasks, i)
            /\ notes' = {"error: Fehler"}
            /\ UNCHANGED <<loading, error>>
    /\ UNCHANGED <<frontsData, expandedFronts, expandedDangers, view, rendered, windows,
                   server, failed, cont, dialogs, nActs>>

---------------------------------------------------------------------------
(* Specifications.  The handlers are grouped, and each specification runs  *)
(* the protocol with some of the groups.                                   *)

\* open, the refresh button, the store's answers to save and fetch, and
\* their reading
Protocol ==
    \/ Open
    \/ RefreshClick
    \/ \E i \in 1..MaxTasks, ok \in BOOLEAN : ServerSave(i, ok)
    \/ \E i \in 1..MaxTasks, ok \in BOOLEAN : ServerFetch(i, ok)
    \/ \E i \in 1..MaxTasks : SaveReturn(i)
    \/ \E i \in 1..MaxTasks : FetchReturn(i)
    \/ Resume

LineDeletes ==
    \E frontId \in FrontIdPool, field \in LineFields, index \in 0..(MaxLines - 1) :
        DeleteLineClick(field, frontId, index)

LineDialogs ==
    \/ \E frontId \in FrontIdPool : EditFrontNameClick(frontId)
    \/ \E frontId \in FrontIdPool, field \in LineFields : AddLineClick(field, frontId)
    \/ \E frontId \in FrontIdPool, field \in LineFields, index \in 0..(MaxLines - 1) :
          EditLineClick(field, frontId, index)

TextButtons ==
    \/ \E d \in dialogs, raw \in RawInputs : TextSubmit(d, raw)
    \/ \E d \in dialogs : DialogCancel(d)

DangerDelete ==
    \/ \E frontId \in FrontIdPool, dangerId \in DangerIdPool :
          DeleteDangerClick(frontId, dangerId)
    \/ \E d \in dialogs, confirmed \in BOOLEAN : DeleteDangerConfirm(d, confirmed)

ItemDeletes ==
    \/ \E dangerId \in DangerIdPool, portentId \in PortentIdPool :
          DeletePortentClick(dangerId, portentId)
    \/ \E dangerId \in DangerIdPool, secretId \in SecretIdPool :
          DeleteSecretClick(dangerId, secretId)
    \/ \E dangerId \in DangerIdPool, index \in 0..(MaxLines - 1) :
          DeleteLocationClick(dangerId, index)

DangerTexts ==
    \/ \E dangerId \in DangerIdPool, kind \in {"add-portent", "add-location"} :
          DangerTextClick(kind, dangerId)
    \/ \E dangerId \in DangerIdPool, kind \in {"edit-impulse", "edit-doom"} :
          EditDangerFieldClick(kind, dangerId)
    \/ \E dangerId \in DangerIdPool, portentId \in PortentIdPool :
          EditPortentClick(dangerId, portentId)
    \/ \E dangerId \in DangerIdPool, index \in 0..(MaxLines - 1) :
          EditLocationClick(dangerId, index)

EditForms ==
    \/ \E dangerId \in DangerIdPool : EditDangerClick(dangerId)
    \/ \E d \in dialogs, f \in DangerForms : EditDangerSubmit(d, f[1], f[2], f[3], f[4])
    \/ \E dangerId \in DangerIdPool, secretId \in SecretIdPool :
          EditSecretClick(dangerId, secretId)
    \/ \E d \in dialogs, xp \in XpValues, raw \in RawInputs : EditSecretSubmit(d, xp, raw)
    \/ \E d \in dialogs : DialogCancel(d)

CreateForms ==
    \/ AddFrontClick
    \/ \E d \in dialogs, raw \in RawInputs, type \in FrontTypes : AddFrontSubmit(d, raw, type)
    \/ \E frontId \in FrontIdPool : AddDangerClick(frontId)
    \/ \E d \in dialogs, f \in DangerForms : AddDangerSubmit(d, f[1], f[2], f[3], f[4])
    \/ \E dangerId \in DangerIdPool : AddSecretClick(dangerId)
    \/ \E d \in dialogs, xp \in XpValues, raw \in RawInputs : AddSecretSubmit(d, xp, raw)
    \/ \E d \in dialogs : DialogCancel(d)

Expansion ==
    \/ \E frontId \in FrontIdPool : ToggleFrontClick(frontId)
    \/ \E dangerId \in DangerIdPool : ToggleDangerClick(dangerId)

Toggles ==
    \/ \E dangerId \in DangerIdPool, secretId \in SecretIdPool :
          ToggleSecretClick(dangerId, secretId)
    \/ \E dangerId \in DangerIdPool, portentId \in PortentIdPool :
          TogglePortentClick(dangerId, portentId)
    \/ \E i \in 1..MaxTasks, ok \in BOOLEAN : ServerToggle(i, ok)
    \/ \E i \in 1..MaxTasks : ToggleReturn(i)

\* the protocol with the public refresh() and the line deletions of a front
Next == Protocol \/ Refresh \/ LineDeletes
Spec == Init /\ [][Next]_vars

\* the line items of a front, with their dialogs
NextLines == Protocol \/ LineDeletes \/ LineDialogs \/ TextButtons
SpecLines == Init /\ [][NextLines]_vars

\* the deletion of a danger, with its confirmation
NextDanger == Protocol \/ DangerDelete
SpecDanger == Init /\ [][NextDanger]_vars

\* the deletions below a danger
NextItems == Protocol \/ ItemDeletes
SpecItems == Init /\ [][NextItems]_vars

\* the text dialogs of a danger
NextDangerTexts == Protocol \/ DangerTexts \/ TextButtons
SpecDangerTexts == Init /\ [][NextDangerTexts]_vars

\* the edit forms of a danger and of a secret
NextEditForms == Protocol \/ EditForms
SpecEditForms == Init /\ [][NextEditForms]_vars

\* the forms that create a front, a danger, a secret
NextCreate == Protocol \/ CreateForms
SpecCreate == Init /\ [][NextCreate]_vars

\* expansion, the server-side toggles and the deletions they race with
NextToggles == Protocol \/ Expansion \/ Toggles \/ ItemDeletes
SpecToggles == Init /\ [][NextToggles]_vars

\* open, the refresh button, the store's answers to fetch, and their reading
Fetches ==
    \/ Open
    \/ RefreshClick
    \/ \E i \in 1..MaxTasks, ok \in BOOLEAN : ServerFetch(i, ok)
    \/ \E i \in 1..MaxTasks : FetchReturn(i)
    \/ Resume

\* the server-side toggles alone: nothing is saved
NextFlips == Fetches \/ Toggles
SpecFlips == Init /\ [][NextFlips]_vars

\* the add-danger form alone
NextAddDanger ==
    \/ Protocol
    \/ \E frontId \in FrontIdPool : AddDangerClick(frontId)
    \/ \E d \in dialogs, f \in DangerForms : AddDangerSubmit(d, f[1], f[2], f[3], f[4])
    \/ \E d \in dialogs : DialogCancel(d)
SpecAddDanger == Init /\ [][NextAddDanger]_vars

\* the four creations: front, danger, secret, portent, each with one blank
\* and one padded text; the dialogs are opened while no request is in flight
NewTexts == { <<" ">>, <<" ", "x">> }
NewForms == { f \in DangerForms : f[1] \in NewTexts }
NextNew ==
    \/ Protocol
    \/ tasks = <<>> /\ AddFrontClick
    \/ \E d \in dialogs, raw \in NewTexts : AddFrontSubmit(d, raw, "campaign")
    \/ \E frontId \in FrontIdPool : tasks = <<>> /\ AddDangerClick(frontId)
    \/ \E d \in dialogs, f \in NewForms : AddDangerSubmit(d, f[1], f[2], f[3], f[4])
    \/ \E dangerId \in DangerIdPool : tasks = <<>> /\ AddSecretClick(dangerId)
    \/ \E d \in dialogs, raw \in NewTexts : AddSecretSubmit(d, 20, raw)
    \/ \E dangerId \in DangerIdPool : tasks = <<>> /\ DangerTextClick("add-portent", dangerId)
    \/ \E d \in dialogs, raw \in NewTexts : TextSubmit(d, raw)
SpecNew == Init /\ [][NextNew]_vars

\* opening and closing the window, by the scene control and by
\* window.FrontManager
NextWindows ==
    \/ SceneControlChange
    \/ FrontManagerOpen
    \/ Refresh
    \/ RefreshClick
    \/ \E i \in 1..MaxTasks, ok \in BOOLEAN : ServerFetch(i, ok)
    \/ \E i \in 1..MaxTasks : FetchReturn(i)
    \/ Resume
SpecWindows == Init /\ [][NextWindows]_vars

\* the secrets: created, edited, and revealed by the store
NextSecrets ==
    \/ Protocol
    \/ \E dangerId \in DangerIdPool, secretId \in SecretIdPool :
          ToggleSecretClick(dangerId, secretId)
    \/ \E i \in 1..MaxTasks, ok \in BOOLEAN : ServerToggle(i, ok)
    \/ \E i \in 1..MaxTasks : ToggleReturn(i)
    \/ \E dangerId \in DangerIdPool : tasks = <<>> /\ AddSecretClick(dangerId)
    \/ \E d \in dialogs, raw \in NewTexts : AddSecretSubmit(d, 20, raw)
    \/ \E dangerId \in DangerIdPool, secretId \in SecretIdPool :
          tasks = <<>> /\ EditSecretClick(dangerId, secretId)
    \/ \E d \in dialogs, raw \in NewTexts : EditSecretSubmit(d, 30, raw)
SpecSecrets == Init /\ [][NextSecrets]_vars

\* expansion and the deletion of a danger: ids stay in the expanded sets
NextView == Protocol \/ Expansion \/ DangerDelete
SpecView == Init /\ [][NextView]_vars

\* the expanded sets under everything that might touch them: expansion,
\* requests, the server-side toggle of a secret, the deletion and the
\* creation of a danger; all but the refresh button are clicked while no
\* request is in flight
NextExpand ==
    \/ Protocol
    \/ tasks = <<>> /\ Expansion
    \/ \E dangerId \in DangerIdPool, secretId \in SecretIdPool :
          tasks = <<>> /\ ToggleSecretClick(dangerId, secretId)
    \/ \E i \in 1..MaxTasks, ok \in BOOLEAN : ServerToggle(i, ok)
    \/ \E i \in 1..MaxTasks : ToggleReturn(i)
    \/ \E frontId \in FrontIdPool, dangerId \in DangerIdPool :
          tasks = <<>> /\ DeleteDangerClick(frontId, dangerId)
    \/ \E d \in dialogs, confirmed \in BOOLEAN : DeleteDangerConfirm(d, confirmed)
    \/ \E frontId \in FrontIdPool : tasks = <<>> /\ AddDangerClick(frontId)
    \/ \E d \in dialogs : AddDangerSubmit(d, <<"x">>, <<"y">>, <<"y">>, <<"y">>)
SpecExpand == Init /\ [][NextExpand]_vars

\* Documents for the accessors.  Ids are expected to be unique but nothing
\* validates what the store returns: besides the usual document, one with
\* two fronts of the same id, one with two dangers of the same id in one
\* front, and one whose first front has no dangers.
FrontTwin == [Front0 EXCEPT !.name = <<"G">>, !.cast = << <<"c">> >>, !.dangers = <<>>]
DangerTwin == [Danger0 EXCEPT !.name = <<"E">>, !.locations = << <<"m">> >>]
FrontBare == [FrontTwin EXCEPT !.id = "f2"]
AccessorDocs ==
    { ServerInit,
      <<Front0, FrontTwin>>,
      <<[Front0 EXCEPT !.dangers = <<Danger0, DangerTwin>>]>>,
      <<FrontBare, [Front0 EXCEPT !.dangers = <<DangerTwin>>], Front0>> }

InitAccessors ==
    /\ frontsData = NullDoc
    /\ expandedFronts = {}
    /\ expandedDangers = {}
    /\ loading = FALSE
    /\ error = NoError
    /\ view = [fronts |-> <<>>, loading |-> FALSE, error |-> NoError]
    /\ rendered = FALSE
    /\ windows = 0
    /\ server \in AccessorDocs
    /\ tasks = <<>>
    /\ cont = 0
    /\ dialogs = {}
    /\ notes = {}
    /\ last = NoLast
    /\ failed = FALSE
    /\ nActs = 0

\* the handlers that look up a front (delete-cast) and a danger
\* (delete-location) and change what they found, with a store that answers
\* every request
NextAccessors ==
    \/ Open
    \/ RefreshClick
    \/ \E i \in 1..MaxTasks : ServerSave(i, TRUE)
    \/ \E i \in 1..MaxTasks : ServerFetch(i, TRUE)
    \/ \E i \in 1..MaxTasks : SaveReturn(i)
    \/ \E i \in 1..MaxTasks : FetchReturn(i)
    \/ Resume
    \/ \E frontId \in FrontIdPool, index \in 0..(MaxLines - 1) :
          DeleteLineClick("cast", frontId, index)
    \/ \E dangerId \in DangerIdPool, index \in 0..(MaxLines - 1) :
          DeleteLocationClick(dangerId, index)
SpecAccessors == InitAccessors /\ [][NextAccessors]_vars

---------------------------------------------------------------------------
(* Properties *)

\* the handlers that change the document and save it
MutationOps ==
    TextOps \cup {"delete-cast", "delete-stake", "delete-danger", "delete-portent",
                  "delete-secret", "delete-location", "add-front", "add-danger",
                  "edit-danger", "add-secret", "edit-secret"}

\* nothing is suspended: every request of every handler has been answered and read
Quiescent == rendered /\ tasks = <<>> /\ cont = 0

\* the newest suspended handler, if any
Newest == tasks[Len(tasks)]

\* C1: when saveAll fails, the mutating action shows an error notification and
\* stops: it issues no fetchAll (and so no render), and the mutated document
\* stays in memory.  Stated on the handlers: no handler whose #saveFronts
\* returned false is ever found awaiting #fetchFronts.
C1_FailedSaveStopsAction ==
    \A i \in Indices(tasks) :
        (tasks[i].op \in MutationOps /\ tasks[i].saved = "false") => tasks[i].pc # "fetch"

\* C2: two mutating actions are strictly serialized: no mutating handler has
\* its saveAll request out while an earlier mutating handler is still awaiting
\* its save or its refetch.
C2_MutationsSerialized ==
    \A i, j \in Indices(tasks) :
        (i < j /\ tasks[i].op \in MutationOps /\ tasks[j].op \in MutationOps)
            => tasks[j].pc # "save"

\* C3: after any sequence of actions whose requests all succeeded, once no
\* request is in flight the document in memory and the view are those of the
\* store, whatever the order in which the responses arrived.
C3_QuiescentViewIsStore ==
    (Quiescent /\ ~failed) =>
        /\ ~frontsData.null
        /\ frontsData.fronts = server
        /\ view.fronts = PrepareContext(Doc(server), expandedFronts, expandedDangers,
                                        FALSE, NoError).fronts

\* C4: the payload of the saveAll issued by an edit action contains the edited
\* value, also when a refetch replaced the document between the opening of the
\* dialog and its submission.  Stated for edit-cast / edit-stake: right after
\* the submission, the line at the edited index of the payload is the value.
C4_EditReachesPayload ==
    ( /\ last.phase = "submit"
      /\ last.d.kind \in {"edit-cast", "edit-stake"}
      /\ tasks # <<>>
      /\ Newest.op = last.d.kind /\ Newest.pc = "save" /\ Newest.net = "sent" )
    => LET fi == Find(Newest.payload, last.d.frontId)
       IN /\ fi # 0
          /\ last.d.index < Len(Newest.payload[fi][FieldOf(last.d.kind)])
          /\ Newest.payload[fi][FieldOf(last.d.kind)][last.d.index + 1] = last.value

\* C5: when Dialog.confirm returns false, delete-danger leaves the document
\* (every front's dangers) unchanged and issues no saveAll, no fetchAll and no
\* render.
C5_DeclinedDeleteChangesNothing ==
    [][ last'.phase = "confirm-no"
          => /\ frontsData' = frontsData
             /\ tasks' = tasks
             /\ loading' = loading
             /\ view' = view
             /\ server' = server ]_vars

\* a delete-danger was declined while the danger is in the document
C5_Witness ==
    /\ last.phase = "confirm-no"
    /\ Found(GetDanger(frontsData, last.d.dangerId))

\* C6: submitting an edit or create dialog whose required text is blank or
\* whitespace-only changes nothing in the document and issues no saveAll.
C6_BlankSubmitRejected ==
    [][ (last'.phase = "submit" /\ ~Truthy(last'.value))
          => (frontsData' = frontsData /\ tasks' = tasks) ]_vars

\* C7: a mutating action whose target entity is absent from the document in
\* memory is silently abandoned: the document is unchanged, no saveAll is
\* issued and no error is shown.  Stated for delete-portent / delete-secret,
\* whose target is the portent / secret of the clicked id.
C7_AbsentTargetAbandoned ==
    [][ ( /\ last'.phase = "click"
          /\ last'.d.kind \in {"delete-portent", "delete-secret"}
          /\ ItemRef(IF last'.d.kind = "delete-portent" THEN "grimPortents" ELSE "secrets",
                     last'.d.dangerId, last'.d.itemId) = "undef" )
          => (frontsData' = frontsData /\ tasks' = tasks /\ notes' = {}) ]_vars

\* C8: a failed fetchAll never writes to the document in memory (a null
\* document stays null, nothing is partially populated) and records an error
\* message.
C8_FailedFetchKeepsDocument ==
    [][ (cont = 0 /\ cont' # 0 /\ tasks[cont'].net = "fail")
          => (frontsData' = frontsData /\ error' # NoError /\ ~loading') ]_vars

\* the initial load has failed: no document, an error message
C8_Witness ==
    /\ cont # 0
    /\ tasks[cont].op = "render" /\ tasks[cont].net = "fail"
    /\ frontsData.null
    /\ error = FetchError

\* C9: whenever a fetch ends in error, the document held before the operation
\* started (if any) is still in memory afterwards, a fetch started by an
\* explicit refresh included.
C9_ErrorKeepsPreviousDocument ==
    (cont # 0 /\ tasks[cont].net = "fail" /\ tasks[cont].hadDoc) => ~frontsData.null

\* C10: no automatic retry: the handler whose fetchAll failed issues no
\* further request; it only ends.
C10_NoAutomaticRetry ==
    [][ (cont # 0 /\ tasks[cont].net = "fail") => Len(tasks') < Len(tasks) ]_vars

\* the dangers of a document, by id
DocDangerIds(fs) == UNION { IdsOf(fs[i].dangers) : i \in Indices(fs) }

\* the view v shows exactly the fronts and dangers of doc, each expanded
\* iff its id is in the set, and the ids of no front / danger change nothing
ViewShows(v, doc, eF, eD) ==
    /\ Len(v.fronts) = Len(doc.fronts)
    /\ \A i \in Indices(doc.fronts) :
          /\ v.fronts[i].id = doc.fronts[i].id
          /\ v.fronts[i].expanded = (doc.fronts[i].id \in eF)
          /\ Len(v.fronts[i].dangers) = Len(doc.fronts[i].dangers)
          /\ \A j \in Indices(doc.fronts[i].dangers) :
                /\ v.fronts[i].dangers[j].id = doc.fronts[i].dangers[j].id
                /\ v.fronts[i].dangers[j].expanded = (doc.fronts[i].dangers[j].id \in eD)
    /\ v.fronts = PrepareContext(doc, eF \cap IdsOf(doc.fronts),
                                 eD \cap DocDangerIds(doc.fronts), FALSE, NoError).fronts

\* C11: rendering tolerates stale expanded ids: for any expanded sets and any
\* document (or none), every view that is rendered contains exactly the
\* document's fronts and dangers, each with expanded = (its id is in the
\* set); ids of the sets that are absent from the document have no effect.
C11_ViewToleratesStaleIds ==
    [][ view' # view
          => ViewShows(view', frontsData', expandedFronts', expandedDangers') ]_vars

\* a view was rendered from a document while an expanded danger id is absent
\* from that document
C11_Witness ==
    /\ Quiescent
    /\ ~frontsData.null
    /\ expandedDangers \ DocDangerIds(frontsData.fronts) # {}
    /\ last.phase = "click" /\ last.d.kind = "toggle-front"
    /\ ViewShows(view, frontsData, expandedFronts, expandedDangers)

ToggleOps == {"toggle-secret", "toggle-portent"}

\* C12: the toggles are server-authoritative: the toggle handlers never change
\* the document in memory themselves and never issue saveAll; after a
\* successful toggle response the handler goes on to fetchAll (the only step
\* of it that changes the document); after a failed toggle response no fetch
\* and no render are issued, and the document and the expanded sets stay.
C12_TogglesServerAuthoritative ==
    [][ /\ (last'.phase = "click" /\ last'.d.kind \in ToggleOps)
            => /\ frontsData' = frontsData
               /\ expandedFronts' = expandedFronts /\ expandedDangers' = expandedDangers
               /\ loading' = loading /\ view' = view
               /\ tasks' # <<>> /\ tasks'[Len(tasks')].pc = "toggle"
        /\ \A i \in Indices(tasks') :
              tasks'[i].op \in ToggleOps
                => /\ tasks'[i].pc \in {"toggle", "fetch"}
                   /\ ( /\ cont = 0 /\ Len(tasks') = Len(tasks)
                        /\ tasks[i].pc = "toggle" /\ tasks'[i].pc = "fetch" )
                        => (tasks[i].net = "ok" /\ frontsData' = frontsData)
        /\ "error: Fehler" \in notes'
            => /\ frontsData' = frontsData
               /\ expandedFronts' = expandedFronts /\ expandedDangers' = expandedDangers
               /\ loading' = loading /\ view' = view
               /\ Len(tasks') = Len(tasks) - 1
               /\ \A j \in Indices(tasks') : \E k \in Indices(tasks) : tasks[k] = tasks'[j]
      ]_vars

\* a toggle request failed while a document is held: the handler has ended
C12_Witness ==
    /\ "error: Fehler" \in notes
    /\ ~frontsData.null
    /\ tasks = <<>>

\* the secret s1 of danger d1 in the document held, if any
HeldSecrets ==
    IF Found(GetDanger(frontsData, "d1"))
    THEN LET at == GetDanger(frontsData, "d1")
         IN frontsData.fronts[at[1]].dangers[at[2]].secrets
    ELSE <<>>

\* C13: with a store that flips revealed symmetrically, toggling the same
\* secret twice in a row, each toggle followed by its refetch, leaves the
\* secret of the document in memory with its original revealed value, and
\* with revealedAt null again as it started unrevealed; after the first of
\* the two toggles it is revealed, with a revealedAt.  No request fails.
C13_ToggleTwiceRestores ==
    /\ (nActs = 1 /\ tasks = <<>> /\ ~failed /\ notes = {"info: Secret gelueftet"})
          => /\ Len(HeldSecrets) = 1
             /\ HeldSecrets[1].revealed /\ HeldSecrets[1].revealedAt # "null"
    /\ (nActs = 2 /\ tasks = <<>> /\ ~failed /\ notes = {"info: Secret zurueckgesetzt"})
          => HeldSecrets = <<Secret0>>

\* the second toggle of the secret has been refetched and rendered
C13_Witness ==
    /\ nActs = 2 /\ tasks = <<>> /\ notes = {"info: Secret zurueckgesetzt"}
    /\ ~failed
    /\ HeldSecrets = <<Secret0>>
    /\ view.fronts[1].dangers[1].secrets = <<Secret0>>

\* the handler op has read the answers to its save and to its fetch, both
\* successful, and is about to render; it is the only action started so far
DoneAlone(op) ==
    /\ cont # 0
    /\ tasks[cont].op = op
    /\ tasks[cont].saved = "true" /\ tasks[cont].net = "ok"
    /\ nActs = 1

\* the document is the stored one with one danger appended to front f1;
\* nothing else differs
OneMoreDanger ==
    /\ Len(frontsData.fronts) = 1
    /\ Len(frontsData.fronts[1].dangers) = 2
    /\ frontsData.fronts[1] =
          [Front0 EXCEPT !.dangers = <<Danger0, frontsData.fronts[1].dangers[2]>>]

AddedDanger == frontsData.fronts[1].dangers[2]

\* C14: after add-danger on an existing front with submitted data (name,
\* dangerType, impulse, doom), followed by a successful save and refetch, the
\* front contains exactly one additional danger, its name, dangerType, impulse
\* and impendingDoom equal the submitted values, and all other fronts and
\* dangers are unchanged.
C14_AddDangerStoresData ==
    DoneAlone("add-danger")
      => /\ OneMoreDanger
         /\ AddedDanger.name = tasks[cont].form[1]
         /\ AddedDanger.dangerType = tasks[cont].form[2]
         /\ AddedDanger.impulse = tasks[cont].form[3]
         /\ AddedDanger.impendingDoom = tasks[cont].form[4]

\* C14 as amended: ... the additional danger is appended last; its name is
\* the submitted name trimmed; its dangerType, impulse and impendingDoom are
\* the submitted values trimmed, or "Unknown", "to cause chaos" and
\* "Destruction" where the trimmed value is empty; it has no portents,
\* secrets or locations; all other fronts and dangers are unchanged.
C14_AddDangerStoresTrimmedOrDefault ==
    DoneAlone("add-danger")
      => LET f == tasks[cont].form
         IN /\ OneMoreDanger
            /\ AddedDanger.id = tasks[cont].newId
            /\ AddedDanger.name = Trim(f[1]) /\ AddedDanger.name # <<>>
            /\ AddedDanger.dangerType =
                  IF Trim(f[2]) = <<>> THEN <<"Unknown">> ELSE Trim(f[2])
            /\ AddedDanger.impulse =
                  IF Trim(f[3]) = <<>> THEN <<"to cause chaos">> ELSE Trim(f[3])
            /\ AddedDanger.impendingDoom =
                  IF Trim(f[4]) = <<>> THEN <<"Destruction">> ELSE Trim(f[4])
            /\ AddedDanger.grimPortents = <<>> /\ AddedDanger.secrets = <<>>
            /\ AddedDanger.locations = <<>>

\* a danger submitted with a padded name and no type was saved and refetched
C14_Witness ==
    /\ DoneAlone("add-danger")
    /\ tasks[cont].form[1] = <<" ", "x">> /\ tasks[cont].form[2] = <<>>
    /\ OneMoreDanger
    /\ AddedDanger.name = <<"x">> /\ AddedDanger.dangerType = <<"Unknown">>

CreateOps == {"add-front", "add-danger", "add-secret", "add-portent"}

\* s2 is s1 with one element more, at the end
OneAppended(s1, s2) == Len(s2) = Len(s1) + 1 /\ SubSeq(s2, 1, Len(s1)) = s1

NewestOf(s) == s[Len(s)]

\* the document after the step is the one before it with one entity appended
\* to the sequence the dialog d owns, and that entity is empty and unflagged
CreatedEmpty(d) ==
    CASE d.kind = "add-front" ->
            /\ OneAppended(frontsData.fronts, frontsData'.fronts)
            /\ LET n == NewestOf(frontsData'.fronts)
               IN /\ n.cast = <<>> /\ n.stakes = <<>>
                  /\ n.playerHooks = <<>> /\ n.dangers = <<>>
      [] d.kind = "add-danger" ->
            LET fi == GetFront(frontsData, d.frontId)
            IN /\ fi # 0
               /\ OneAppended(frontsData.fronts[fi].dangers, frontsData'.fronts[fi].dangers)
               /\ LET n == NewestOf(frontsData'.fronts[fi].dangers)
                  IN /\ n.grimPortents = <<>> /\ n.secrets = <<>> /\ n.locations = <<>>
                     /\ frontsData' = [frontsData EXCEPT !.fronts[fi].dangers = Append(@, n)]
      [] d.kind = "add-secret" ->
            LET at == GetDanger(frontsData, d.dangerId)
            IN /\ Found(at)
               /\ LET old == frontsData.fronts[at[1]].dangers[at[2]].secrets
                      new == frontsData'.fronts[at[1]].dangers[at[2]].secrets
                  IN /\ OneAppended(old, new)
                     /\ ~NewestOf(new).revealed /\ NewestOf(new).revealedAt = "null"
                     /\ frontsData' = [frontsData EXCEPT
                                         !.fronts[at[1]].dangers[at[2]].secrets = new]
      [] d.kind = "add-portent" ->
            LET at == GetDanger(frontsData, d.dangerId)
            IN /\ Found(at)
               /\ LET old == frontsData.fronts[at[1]].dangers[at[2]].grimPortents
                      new == frontsData'.fronts[at[1]].dangers[at[2]].grimPortents
                  IN /\ OneAppended(old, new)
                     /\ ~NewestOf(new).completed
                     /\ frontsData' = [frontsData EXCEPT
                                         !.fronts[at[1]].dangers[at[2]].grimPortents = new]

\* C15: entities created locally start empty and unflagged: a new front has
\* empty cast, stakes, playerHooks and dangers; a new danger has empty
\* grimPortents, secrets and locations; a new secret has revealed = false and
\* revealedAt = null; a new portent has completed = false; each creation
\* appends exactly one entity to the end of its owning sequence (and a
\* creation dialog changes the document, or saves, in no other way).
C15_CreatedEntitiesStartEmpty ==
    [][ ( /\ last'.phase = "submit" /\ last'.d.kind \in CreateOps
          /\ (frontsData' # frontsData \/ tasks' # tasks) )
          => CreatedEmpty(last'.d) ]_vars

\* a second secret was appended to danger d1, unrevealed, and is being saved
C15_Witness ==
    /\ last.phase = "submit" /\ last.d.kind = "add-secret"
    /\ Len(HeldSecrets) = 2
    /\ HeldSecrets[1] = Secret0
    /\ ~HeldSecrets[2].revealed /\ HeldSecrets[2].revealedAt = "null"
    /\ tasks # <<>> /\ Newest.op = "add-secret" /\ Newest.pc = "save"

\* C16: after add-front (add-danger) completes with a successful save, the id
\* of the new entity is in expandedFronts (expandedDangers), so that the next
\* render shows it expanded; the id is added only for an entity that the save
\* made durable.  Stated on the step that follows the handler's fetch.
C16_ExpandedOnlyIfSaved ==
    [][ /\ (cont # 0 /\ tasks[cont].op = "add-front")
            => (tasks[cont].newId \in expandedFronts' <=> tasks[cont].saved = "true")
        /\ (cont # 0 /\ tasks[cont].op = "add-danger")
            => (tasks[cont].newId \in expandedDangers' <=> tasks[cont].saved = "true")
      ]_vars

\* the FrontManagerApp objects whose window is open
RenderedApps == windows + (IF rendered THEN 1 ELSE 0)

\* C17: at most one client instance is open at any time: after any sequence
\* of open (scene control, window.FrontManager.open) and close actions there
\* is never more than one rendered FrontManagerApp, and
\* FrontManagerApp.instance refers to it.
C17_SingleInstance ==
    /\ RenderedApps <= 1
    /\ RenderedApps = 1 => rendered

\* C18: document lifecycle: the first render with a null document issues
\* exactly one fetchAll (and none when that fetch has been read); an explicit
\* refresh sets the document to null before its fetch is issued; every
\* successful fetchAll replaces the document in memory wholesale with the
\* server's response, keeping nothing of the previous local copy.
C18_DocumentLifecycle ==
    [][ /\ (last'.phase = "click" /\ last'.d.kind = "open" /\ frontsData.null)
            => /\ Len(tasks') = Len(tasks) + 1
               /\ tasks'[Len(tasks')].op = "render"
               /\ tasks'[Len(tasks')].pc = "fetch" /\ tasks'[Len(tasks')].net = "sent"
        /\ (cont # 0 /\ tasks[cont].op = "render")
            => tasks' = RemoveAt(tasks, cont)
        /\ (last'.phase = "click" /\ last'.d.kind \in {"refresh", "refresh-button"})
            => /\ frontsData'.null
               /\ Len(tasks') = Len(tasks) + 1
               /\ tasks'[Len(tasks')].pc = "fetch" /\ tasks'[Len(tasks')].net = "sent"
        /\ (cont = 0 /\ cont' # 0 /\ tasks[cont'].net = "ok")
            => /\ frontsData' = Doc(tasks[cont'].payload)
               /\ \E i \in Indices(tasks) : tasks[i].pc = "fetch" /\ tasks[i].net = "ok"
      ]_vars

\* the fetch of a handler whose save failed has been read: the line deleted
\* locally is back, the document is the stored one
C18_Witness ==
    /\ cont # 0
    /\ tasks[cont].op = "delete-cast"
    /\ tasks[cont].saved = "false" /\ tasks[cont].net = "ok"
    /\ frontsData = Doc(ServerInit)

\* the secrets of a sequence of fronts
SecretsOf(fs) ==
    UNION { UNION { { fs[i].dangers[j].secrets[k] : k \in Indices(fs[i].dangers[j].secrets) }
                    : j \in Indices(fs[i].dangers) } : i \in Indices(fs) }

\* revealedAt is non-null iff revealed
Stamped(x) == (x.revealedAt # "null") <=> x.revealed

\* C19: if every document returned by the server satisfies, for every secret,
\* revealedAt non-null iff revealed, then every payload the client sends by
\* saveAll satisfies it too: no client action changes revealed or revealedAt
\* of an existing secret, or creates a secret violating it.
C19_PayloadsKeepRevealedAt ==
    [][ (\A x \in SecretsOf(server) \cup SecretsOf(server') : Stamped(x))
          => /\ \A i \in Indices(tasks') :
                   tasks'[i].pc = "save" => \A x \in SecretsOf(tasks'[i].payload) : Stamped(x)
             /\ (cont' = 0 /\ ~frontsData.null /\ ~frontsData'.null)
                   => \A x \in SecretsOf(frontsData.fronts), y \in SecretsOf(frontsData'.fronts) :
                         x.id = y.id
                           => (y.revealed = x.revealed /\ y.revealedAt = x.revealedAt)
      ]_vars

\* a secret the store had revealed was edited, and the payload of the save
\* holds it revealed, with its revealedAt
C19_Witness ==
    /\ tasks # <<>>
    /\ Newest.op = "edit-secret" /\ Newest.pc = "save"
    /\ \E x \in SecretsOf(Newest.payload) :
          x.id = "s1" /\ x.revealed /\ x.revealedAt = "ts" /\ x.xp = 30

\* C20: in every state observable between handler steps, loading = true and
\* a non-null error never hold together, in the fields and in the rendered
\* view, for any interleaving of overlapping fetches: starting a fetch
\* clears error, a failing fetch sets error and clears loading in one step.
C20_LoadingExcludesError ==
    /\ ~(loading /\ error # NoError)
    /\ ~(view.loading /\ view.error # NoError)

\* of two overlapping fetches one has failed and the other is still out
C20_Witness ==
    /\ error # NoError /\ ~loading
    /\ \E i \in Indices(tasks) : tasks[i].pc = "fetch" /\ tasks[i].net = "sent"

\* C21: a fetchAll failure in the refetch that follows a mutation is surfaced
\* as a transient notification, not as the persistent inline error, and
\* leaves the prior document visible; only a fetch failure during the
\* initial load sets the persistent inline error message.  Stated on the two
\* steps of a mutating handler whose refetch failed: reading the failure
\* leaves error as it was, and the handler ends with an error notification
\* and a view without inline error.
C21_RefetchFailureIsTransient ==
    [][ /\ (cont = 0 /\ cont' # 0 /\ tasks[cont'].op \in MutationOps
              /\ tasks[cont'].net = "fail")
            => (error' = error /\ frontsData' = frontsData)
        /\ (cont # 0 /\ tasks[cont].op \in MutationOps /\ tasks[cont].net = "fail"
              /\ view' # view)
            => (view'.error = NoError /\ \E n \in notes' : n # EndNote(tasks[cont]))
      ]_vars

\* the set s with the membership of id flipped
Flipped(s, id) == (s \ {id}) \cup ({id} \ s)

\* C22: expansion toggles and nothing else flip set membership: toggle-front
\* (toggle-danger) flips the membership of exactly the clicked id in
\* expandedFronts (expandedDangers), toggling the same id once more restores
\* the set, and the document is untouched; fetchAll, saveAll, refresh, the
\* server-side toggles and the delete actions never change either set; the
\* only other change is add-front / add-danger adding the new id.
C22_OnlyExpansionFlips ==
    [][ /\ (last'.phase = "click" /\ last'.d.kind = "toggle-front")
            => /\ expandedFronts' = Flipped(expandedFronts, last'.d.frontId)
               /\ ToggleFront(expandedFronts', last'.d.frontId) = expandedFronts
               /\ expandedDangers' = expandedDangers
               /\ frontsData' = frontsData /\ server' = server
        /\ (last'.phase = "click" /\ last'.d.kind = "toggle-danger")
            => /\ expandedDangers' = Flipped(expandedDangers, last'.d.dangerId)
               /\ ToggleDanger(expandedDangers', last'.d.dangerId) = expandedDangers
               /\ expandedFronts' = expandedFronts
               /\ frontsData' = frontsData /\ server' = server
        /\ expandedFronts' # expandedFronts
            => \/ last'.phase = "click" /\ last'.d.kind = "toggle-front"
               \/ /\ cont # 0 /\ tasks[cont].op = "add-front"
                  /\ expandedFronts' = expandedFronts \cup {tasks[cont].newId}
        /\ expandedDangers' # expandedDangers
            => \/ last'.phase = "click" /\ last'.d.kind = "toggle-danger"
               \/ /\ cont # 0 /\ tasks[cont].op = "add-danger"
                  /\ expandedDangers' = expandedDangers \cup {tasks[cont].newId}
      ]_vars

\* a front was collapsed by its toggle while the id of a deleted danger is
\* still in expandedDangers
C22_Witness ==
    /\ last.phase = "click" /\ last.d.kind = "toggle-front"
    /\ last.d.frontId \notin expandedFronts
    /\ ~frontsData.null
    /\ "d1" \in expandedDangers
    /\ "d1" \notin DocDangerIds(frontsData.fronts)

\* the first front of fs with this id, or 0
FirstFront(fs, id) ==
    IF \E i \in Indices(fs) : fs[i].id = id
    THEN CHOOSE i \in Indices(fs) : fs[i].id = id /\ \A k \in 1..(i - 1) : fs[k].id # id
    ELSE 0

\* the first front of fs, in order, that holds a danger with this id, and the
\* first such danger in it; or <<0, 0>>
FirstDanger(fs, id) ==
    IF \E i \in Indices(fs) : id \in IdsOf(fs[i].dangers)
    THEN LET i == CHOOSE i \in Indices(fs) :
                     /\ id \in IdsOf(fs[i].dangers)
                     /\ \A k \in 1..(i - 1) : id \notin IdsOf(fs[k].dangers)
         IN <<i, FirstFront(fs[i].dangers, id)>>
    ELSE <<0, 0>>

\* C23: the entity accessors are pure and total: findFront and findDanger
\* return absent for a null document and for an unknown id, findFront the
\* first front with the id, findDanger the first danger with the id in front
\* order together with the front whose dangers contain it; the document is
\* left unchanged by the lookup: a handler that finds nothing changes nothing,
\* one that finds its target changes the target and nothing else.
C23_AccessorsPureAndTotal ==
    [][ /\ \A id \in FrontIdPool :
              GetFront(frontsData, id) =
                  IF frontsData.null THEN 0 ELSE FirstFront(frontsData.fronts, id)
        /\ \A id \in DangerIdPool :
              /\ GetDanger(frontsData, id) =
                    IF frontsData.null THEN <<0, 0>> ELSE FirstDanger(frontsData.fronts, id)
              /\ LET at == GetDanger(frontsData, id)
                 IN Found(at) => /\ at[2] # 0
                                 /\ frontsData.fronts[at[1]].dangers[at[2]].id = id
        /\ (last'.phase = "click" /\ last'.d.kind = "delete-cast")
              => LET i == FirstFront(frontsData.fronts, last'.d.frontId)
                 IN IF frontsData.null \/ i = 0
                    THEN frontsData' = frontsData /\ tasks' = tasks
                    ELSE frontsData' = [frontsData EXCEPT
                                           !.fronts[i].cast = Splice(@, last'.d.index)]
        /\ (last'.phase = "click" /\ last'.d.kind = "delete-location")
              => LET at == FirstDanger(frontsData.fronts, last'.d.dangerId)
                 IN IF frontsData.null \/ at[1] = 0
                    THEN frontsData' = frontsData /\ tasks' = tasks
                    ELSE frontsData' = [frontsData EXCEPT
                                           !.fronts[at[1]].dangers[at[2]].locations =
                                               Splice(@, last'.d.index)]
      ]_vars

\* of two dangers with the same id the first one lost its location
C23_Witness ==
    /\ last.phase = "click" /\ last.d.kind = "delete-location"
    /\ Len(frontsData.fronts) = 1
    /\ Len(frontsData.fronts[1].dangers) = 2
    /\ frontsData.fronts[1].dangers[1].id = frontsData.fronts[1].dangers[2].id
    /\ frontsData.fronts[1].dangers[1].locations = <<>>
    /\ frontsData.fronts[1].dangers[2].locations = << <<"m">> >>

SuccessNotes ==
    {"info: Gespeichert", "info: Front erstellt", "info: Danger erstellt",
     "info: Secret erstellt", "info: Danger aktualisiert", "info: Secret aktualisiert"}

\* C24: a success notification ('Gespeichert', 'Front ... erstellt',
\* 'Danger ... erstellt', 'Secret erstellt', 'Danger aktualisiert', 'Secret
\* aktualisiert') is emitted for a mutating action only if that action's
\* saveAll succeeded and the mutation was actually applied to the document:
\* only the last step of a mutating handler whose #saveFronts returned true
\* emits one.
C24_SuccessNoteOnlyAfterSave ==
    [][ notes' \cap SuccessNotes # {}
          => /\ cont # 0
             /\ tasks[cont].op \in MutationOps
             /\ tasks[cont].saved = "true" ]_vars

FlagText(b) == IF b THEN "true" ELSE "false"

\* the revealed / completed value that the payload fs holds for the item the
\* toggle handler t is about, or "absent"
PayloadFlag(fs, t) ==
    LET field == IF t.op = "toggle-secret" THEN "secrets" ELSE "grimPortents"
        at == GetDangerFrom(fs, t.dangerId, 1)
        xi == IF Found(at) THEN Find(fs[at[1]].dangers[at[2]][field], t.itemId) ELSE 0
    IN IF xi = 0 THEN "absent"
       ELSE IF t.op = "toggle-secret"
            THEN FlagText(fs[at[1]].dangers[at[2]].secrets[xi].revealed)
            ELSE FlagText(fs[at[1]].dangers[at[2]].grimPortents[xi].completed)

\* C25: a toggle accepted by the server is never undone by this client's own
\* saveAll: no saveAll payload carries a revealed / completed value for a
\* secret / portent that is older than a toggle the server already
\* acknowledged to this client, for any interleaving of a toggle (and its
\* refetch) with a mutating action.  Stated on the step that sends a save:
\* for every toggle handler that has read its answer and awaits its refetch,
\* the payload holds the item with the value the server answered.
C25_SaveKeepsAcknowledgedToggle ==
    [][ ( /\ Len(tasks') = Len(tasks) + 1
          /\ tasks'[Len(tasks')].pc = "save" )
          => \A i \in Indices(tasks) :
                (tasks[i].op \in ToggleOps /\ tasks[i].pc = "fetch")
                  => PayloadFlag(tasks'[Len(tasks')].payload, tasks[i])
                        \in {"absent", FlagText(tasks[i].flag)} ]_vars

\* C26: an index-based line-item action (delete / edit of cast, stake,
\* location) affects exactly the item that was shown at the clicked index in
\* the view the user clicked on, never another item and never a position
\* beyond the end of the sequence, also when another action changed the
\* sequence between that render and the click's execution.  Stated for
\* delete-cast / delete-stake: when the click changes the document or saves,
\* the line at the clicked index of the document is the line the view shows
\* there.
C26_IndexHitsShownItem ==
    [][ ( /\ last'.phase = "click"
          /\ last'.d.kind \in {"delete-cast", "delete-stake"}
          /\ (frontsData' # frontsData \/ tasks' # tasks) )
          => LET fi == GetFront(frontsData, last'.d.frontId)
                 field == FieldOf(last'.d.kind)
                 index == last'.d.index
             IN /\ fi # 0
                /\ index < Len(frontsData.fronts[fi][field])
                /\ frontsData.fronts[fi][field][index + 1] =
                      ViewFrontOf(last'.d.frontId)[field][index + 1] ]_vars

\* the handler ts[i] awaits the answer to its GET, which it has not read
FetchInFlight(ts, c, i) == ts[i].pc = "fetch" /\ i # c

\* C27: loading is true whenever a fetchAll is in flight, so the guard in
\* _prepareContext (document null and not loading) never starts a fetch
\* while another fetch is still pending, for any overlap of fetches started
\* by mutations, toggles, refresh and renders.
C27_LoadingWhileFetching ==
    [][ /\ (\E i \in Indices(tasks') : FetchInFlight(tasks', cont', i)) => loading'
        /\ ( /\ tasks' # <<>>
             /\ tasks'[Len(tasks')].op = "render"
             /\ \A i \in Indices(tasks) : tasks[i] # tasks'[Len(tasks')] )
            => \A i \in Indices(tasks') :
                  FetchInFlight(tasks', cont', i) => i = Len(tasks')
      ]_vars

\* C28: no user action raises an unhandled error when the document in memory
\* is null (after a failed load or while a refresh is in flight): add-front
\* and every other mutating action then either is abandoned without a save
\* or reports a save error, and the state stays well-formed.
C28_NoErrorOnNullDocument ==
    [][ (frontsData.null /\ last'.phase \in {"click", "submit"})
          => /\ "TypeError" \notin notes'
             /\ (tasks' # tasks /\ last'.d.kind \in MutationOps)
                   => "error: Fehler beim Speichern" \in notes' ]_vars

=============================================================================
